---- MODULE Spec2Model ----
(***************************************************************************)
(* Model of geniepy: the PubMed bulk ingestion pipeline                    *)
(* (geniepy/pubmed_historical.py) and the data access object               *)
(* (geniepy/datamgmt/dao.py, geniepy/datamgmt/parsers.py).                 *)
(*                                                                         *)
(* Strings are sequences of tokens.  The tokens "a", "b", ".xml", ".gz",   *)
(* ".jsonl" and the directory tokens "in/", "out/" are uniquely decodable  *)
(* and every occurrence of ".gz" or ".xml.gz" in a concatenation of them   *)
(* starts at a token boundary, so str.replace and str.endswith on the      *)
(* characters agree with the same operations on the tokens.                *)
(***************************************************************************)
EXTENDS Integers, Sequences, FiniteSets, TLC

VARIABLES
    argv3,          \* sys.argv[3] as given on the command line
    phase,          \* position of the main process / dispatcher
    max_workers,    \* MAX_WORKERS, the size handed to ProcessPoolExecutor
    data_out_dir,   \* sys.argv[2], an existing directory
    fs,             \* the file system: path -> content, for the files that exist
    xml_files,      \* concurrent_execution's list of discovered archives
    queue,          \* work items submitted to the pool and not yet picked up
    running,        \* work items a worker process is executing
    pc,             \* per work item: position inside parse_pubmed_article_set
    article_list,   \* per work item: the local article_list
    fault,          \* per work item: the step at which the environment failed it
    assigned,       \* per work item: how many times a worker picked it up
    log,            \* the lines written through logging
    store,          \* the repository's persisted rows
    dao_call,       \* the last call made on the DAO and its argument
    repo_calls,     \* the calls that DAO call made on its repository
    dao_result,     \* how that DAO call ended: returned or the error raised
    chunksize,      \* the chunksize argument of that call, when it is a query
    chunks,         \* the DataFrames the generator of that query yields, in order
    rebuild         \* how far the calls so far follow purge_records, valid save, query

pipeVars == <<argv3, phase, max_workers, data_out_dir, fs, xml_files, queue,
              running, pc, article_list, fault, assigned, log>>
daoVars == <<store, dao_call, repo_calls, dao_result, chunksize, chunks, rebuild>>
vars == <<pipeVars, daoVars>>

----------------------------------------------------------------------------
(* Bounds of the model *)

\* the most files the input directory holds when the run starts
MaxFiles == 2

\* the most rows a batch handed to the DAO holds
MaxRows == 2

\* Largest chunksize a query asks for.
MaxChunk == 2

\* the lowest and highest worker pool size main accepts
MinWorkers == 1
MaxWorkers == 16

----------------------------------------------------------------------------
(* Strings and paths *)

\* The elements of a sequence.
Range(q) == {q[i] : i \in 1..Len(q)}

\* str.endswith
EndsWith(s, suffix) ==
    /\ Len(s) >= Len(suffix)
    /\ SubSeq(s, Len(s) - Len(suffix) + 1, Len(s)) = suffix

\* str.replace(old, new): every non-overlapping occurrence, left to right
RECURSIVE Replace(_, _, _)
Replace(s, old, new) ==
    IF Len(s) < Len(old) THEN s
    ELSE IF SubSeq(s, 1, Len(old)) = old
         THEN new \o Replace(SubSeq(s, Len(old) + 1, Len(s)), old, new)
         ELSE <<Head(s)>> \o Replace(Tail(s), old, new)

\* sys.argv[1], the input directory
data_in_dir == "in/"

\* os.path.join(directory, filename)
Join(dir, filename) == <<dir>> \o filename

\* os.path.basename(path)
Basename(path) == Tail(path)

\* os.path.dirname(path), with its trailing separator
Dirname(path) == Head(path)

is_xml_article_set(filename) == EndsWith(filename, <<".xml", ".gz">>)

\* xml_file = in_path.replace(".gz", "")
XmlFile(in_path) == Replace(in_path, <<".gz">>, <<>>)

\* output_file = os.path.join(out_path, filename.replace(".xml.gz", ".jsonl"))
OutputFile(in_path, out_path) ==
    Join(out_path, Replace(Basename(in_path), <<".xml", ".gz">>, <<".jsonl">>))

\* output_file_compressed = output_file + ".gz"
OutputFileCompressed(in_path, out_path) ==
    OutputFile(in_path, out_path) \o <<".gz">>

----------------------------------------------------------------------------
(* File contents *)

\* What a file holds: the archive its bytes come from, whether all of them are
\* there, and the encoding, outermost layer last.
Content(src, full, fmt) == [src |-> src, full |-> full, fmt |-> fmt]

\* gzip.compress / the gzip member a complete write produces
Gzip(c) == [c EXCEPT !.fmt = Append(c.fmt, "gz")]

\* gzip.open(...).read(): strips the gzip layer
Gunzip(c) == [c EXCEPT !.fmt = SubSeq(c.fmt, 1, Len(c.fmt) - 1)]

\* The value of article_list before extract_articles has returned.
NoArticles == [src |-> <<>>, full |-> FALSE]

\* ArticleSetParser.extract_articles: the records of the xml it read
ExtractArticles(c) == [src |-> c.src, full |-> c.full]

\* ArticleSetParser.articles_to_jsonl: one json line per record
ArticlesToJsonl(articles) == Content(articles.src, articles.full, <<"jsonl">>)

Exists(path) == path \in DOMAIN fs

\* The file system after path has been (re)written with content c.
Written(path, c) == [p \in DOMAIN fs \cup {path} |-> IF p = path THEN c ELSE fs[p]]

\* The file system after os.remove(path).
Removed(path) == [p \in DOMAIN fs \ {path} |-> fs[p]]

\* A line of the log: logging.info or logging.error, the message, the file it
\* names, the number it reports.
Line(level, msg, file, n) == [level |-> level, msg |-> msg, file |-> file, n |-> n]

----------------------------------------------------------------------------
(* Batches: pandas DataFrames *)

\* A cell: a Python int or a str, with its text (str(value)) as tokens.
IntCell(text) == [t |-> "int", v |-> text]
StrCell(text) == [t |-> "str", v |-> text]

Digits == {"1", "2", "7"}

\* The payload None, and a DataFrame with a header and rows.  A row holds the
\* cells of the columns the schema constrains.
None == [none |-> TRUE, columns |-> <<>>, rows |-> <<>>]
DataFrame(columns, rows) == [none |-> FALSE, columns |-> columns, rows |-> rows]

\* CtdParser.schema: the columns, in order
SchemaColumns == <<"GeneSymbol", "GeneID", "DiseaseName", "DiseaseID", "PubMedIDs">>

\* series.dtype of a column: int64 when every cell is an int and there is one,
\* object otherwise
IsIntDtype(df, col) ==
    /\ df.rows # <<>>
    /\ \A i \in 1..Len(df.rows) : df.rows[i][col].t = "int"

\* MatchesPatternValidation("^D(\d)+$") on str(cell): re.search, where $ also
\* matches before a final newline
MatchesPattern(text) ==
    LET body == IF text # <<>> /\ text[Len(text)] = "\n"
                THEN SubSeq(text, 1, Len(text) - 1) ELSE text
    IN  /\ Len(body) >= 2
        /\ body[1] = "D"
        /\ \A i \in 2..Len(body) : body[i] \in Digits

InHeader(df, col) == \E i \in 1..Len(df.columns) : df.columns[i] = col

\* pandas_schema.Schema.validate(df) for CtdParser.schema: the errors found
SchemaValidate(df) ==
    IF Len(df.columns) # Len(SchemaColumns)
    THEN {"Invalid number of columns"}
    ELSE IF \E i \in 1..Len(SchemaColumns) : ~InHeader(df, SchemaColumns[i])
    THEN {"The column exists in the schema but not in the data frame"}
    ELSE (IF IsIntDtype(df, "GeneID") THEN {} ELSE {"GeneID has a dtype of object"})
         \cup {"DiseaseID does not match the pattern" :
                  i \in {j \in 1..Len(df.rows) : ~MatchesPattern(df.rows[j]["DiseaseID"].v)}}
         \cup (IF IsIntDtype(df, "PubMedIDs") THEN {} ELSE {"PubMedIDs has a dtype of object"})

\* BaseParser.is_valid that tests for None and forgets the errors.
is_valid_ignoring_errors(payload) ==
    IF payload.none THEN FALSE ELSE TRUE

\* BaseParser.is_valid
is_valid(payload) ==
    IF payload.none THEN FALSE
    ELSE IF SchemaValidate(payload) # {} THEN FALSE
    ELSE TRUE

----------------------------------------------------------------------------
(* Inputs *)

\* The names the input directory may hold when the run starts: archives,
\* among them two whose names differ only by an inner ".gz" and two whose
\* names differ only by an inner ".jsonl" for an inner ".xml.gz", and a
\* decompressed file that is no archive.
FileNames ==
    { <<"a", ".xml", ".gz">>,
      <<"a", ".gz", ".xml", ".gz">>,
      <<"b", ".jsonl", ".xml", ".gz">>,
      <<"b", ".xml", ".gz", ".xml", ".gz">>,
      <<"a", ".xml">> }

Listings == {L \in SUBSET FileNames : Cardinality(L) <= MaxFiles}

\* The third command line argument: a decimal integer or some other text.
IntArg(n) == [numeric |-> TRUE, val |-> n]
TextArg == [numeric |-> FALSE, val |-> 0]
ArgValues == {IntArg(n) : n \in {0, 1, 2, 16, 17, 20}} \cup {TextArg}

\* The rows, headers and payloads handed to the DAO.
Row(gene_id, disease_id, pubmed_ids) ==
    [GeneID |-> gene_id, DiseaseID |-> disease_id, PubMedIDs |-> pubmed_ids]

Rows ==
    { Row(IntCell(<<"1">>), StrCell(<<"D", "1">>), IntCell(<<"7">>)),
      Row(IntCell(<<"1">>), StrCell(<<"D", "2">>), IntCell(<<"7">>)),
      Row(StrCell(<<"x">>), StrCell(<<"D", "1">>), IntCell(<<"7">>)),
      Row(IntCell(<<"2">>), StrCell(<<"D", "1", "2">>), IntCell(<<"7">>)),
      Row(IntCell(<<"1">>), StrCell(<<"D">>), IntCell(<<"7">>)),
      Row(IntCell(<<"1">>), StrCell(<<"D", "1">>), StrCell(<<"x">>)) }

Headers ==
    { SchemaColumns,
      <<"GeneSymbol", "GeneID", "DiseaseName", "PubMedIDs">>,
      <<"GeneSymbol", "GeneID", "DiseaseName", "Score", "PubMedIDs">>,
      <<"GeneSymbol", "GeneID", "DiseaseName", "DiseaseID", "PubMedIDs", "Score">> }

\* The payloads handed to the parser: None and the batches of up to MaxRows
\* rows under each header.
ParserPayloads ==
    {None} \cup
    {DataFrame(h, r) : h \in Headers, r \in UNION {[1..n -> Rows] : n \in 0..MaxRows}}

\* The payloads handed to the DAO: None, the batches of up to MaxRows rows
\* under the header of the schema, and the batches of at most one row under
\* every other header.
Payloads ==
    {None}
    \cup {DataFrame(SchemaColumns, r) : r \in UNION {[1..n -> Rows] : n \in 0..MaxRows}}
    \cup {DataFrame(h, r) : h \in Headers \ {SchemaColumns},
                            r \in UNION {[1..n -> Rows] : n \in 0..1}}

InitialContent(path) ==
    Content(path, TRUE,
            IF is_xml_article_set(Basename(path)) THEN <<"xml", "gz">> ELSE <<"xml">>)

PipeInit ==
    /\ argv3 \in ArgValues
    /\ phase = "main"
    /\ max_workers = 0
    /\ data_out_dir \in {"in/", "out/"}
    /\ \E L \in Listings :
          fs = [p \in {Join(data_in_dir, n) : n \in L} |-> InitialContent(p)]
    /\ xml_files = <<>>
    /\ queue = <<>>
    /\ running = {}
    /\ pc = <<>>
    /\ article_list = <<>>
    /\ fault = <<>>
    /\ assigned = <<>>
    /\ log = {}

\* A DAO bound to an empty repository, on which nothing was called yet.
DaoInit ==
    /\ store = <<>>
    /\ dao_call = [op |-> "none", payload |-> None]
    /\ repo_calls = <<>>
    /\ dao_result = "none"
    /\ chunksize = 0
    /\ chunks = <<>>
    /\ rebuild = "no"

Init == PipeInit /\ DaoInit

----------------------------------------------------------------------------
(* The main process: __main__ and concurrent_execution *)

\* __main__ with the upper limit tested by >= instead of >.
MainOffByOne ==
    /\ phase = "main"
    /\ IF ~argv3.numeric
       THEN /\ phase' = "raised"
            /\ UNCHANGED <<max_workers, log>>
       ELSE /\ phase' = "discover"
            /\ IF argv3.val < MinWorkers \/ argv3.val >= MaxWorkers
               THEN /\ log' = log \cup {Line("error", "Invalid number of workers requested", <<>>, argv3.val)}
                    /\ max_workers' = 1
               ELSE /\ max_workers' = argv3.val
                    /\ UNCHANGED log
    /\ UNCHANGED <<argv3, data_out_dir, fs, xml_files, queue, running, pc,
                   article_list, fault, assigned, daoVars>>

\* __main__, lines 141-155: int(sys.argv[3]) and the range check.  int() of
\* a non-numeric string raises ValueError, which "except TypeError" does not
\* catch.
Main ==
    /\ phase = "main"
    /\ IF ~argv3.numeric
       THEN /\ phase' = "raised"
            /\ UNCHANGED <<max_workers, log>>
       ELSE /\ phase' = "discover"
            /\ IF argv3.val < MinWorkers \/ argv3.val > MaxWorkers
               THEN /\ log' = log \cup {Line("error", "Invalid number of workers requested", <<>>, argv3.val)}
                    /\ max_workers' = 1
               ELSE /\ max_workers' = argv3.val
                    /\ UNCHANGED log
    /\ UNCHANGED <<argv3, data_out_dir, fs, xml_files, queue, running, pc,
                   article_list, fault, assigned, daoVars>>

\* The orders os.listdir may return the files of S in.
Orderings(S) ==
    {q \in [1..Cardinality(S) -> S] : \A i, j \in 1..Cardinality(S) : q[i] = q[j] => i = j}

\* concurrent_execution listing the input directory without the filter
\* is_xml_article_set.
DiscoverUnfiltered ==
    /\ phase = "discover"
    /\ \E q \in Orderings({p \in DOMAIN fs : Dirname(p) = data_in_dir}) :
          /\ xml_files' = q
          /\ log' = log \cup {Line("info", "Found PubMed article sets", <<>>, Len(q))}
    /\ phase' = "submit"
    /\ UNCHANGED <<argv3, max_workers, data_out_dir, fs, queue, running, pc,
                   article_list, fault, assigned, daoVars>>

\* concurrent_execution, lines 101-107
Discover ==
    /\ phase = "discover"
    /\ \E q \in Orderings({p \in DOMAIN fs :
                              /\ Dirname(p) = data_in_dir
                              /\ is_xml_article_set(Basename(p))}) :
          /\ xml_files' = q
          /\ log' = log \cup {Line("info", "Found PubMed article sets", <<>>, Len(q))}
    /\ phase' = "submit"
    /\ UNCHANGED <<argv3, max_workers, data_out_dir, fs, queue, running, pc,
                   article_list, fault, assigned, daoVars>>

\* concurrent_execution, lines 109-110: ProcessPoolExecutor(max_workers) and
\* executor.map, which submits one work item per archive at once and returns
\* an iterator of results that nobody reads.
Submit ==
    /\ phase = "submit"
    /\ IF max_workers <= 0
       THEN /\ phase' = "raised"
            /\ UNCHANGED <<queue, pc, article_list, fault, assigned>>
       ELSE /\ phase' = "join"
            /\ queue' = xml_files
            /\ pc' = [f \in {xml_files[i] : i \in 1..Len(xml_files)} |-> "queued"]
            /\ article_list' = [f \in {xml_files[i] : i \in 1..Len(xml_files)} |-> NoArticles]
            /\ fault' = [f \in {xml_files[i] : i \in 1..Len(xml_files)} |-> "none"]
            /\ assigned' = [f \in {xml_files[i] : i \in 1..Len(xml_files)} |-> 0]
    /\ UNCHANGED <<argv3, max_workers, data_out_dir, fs, xml_files, running, log, daoVars>>

\* concurrent_execution reporting without waiting for the pool
\* (shutdown(wait=False)).
ReportWithoutJoin ==
    /\ phase = "join"
    /\ log' = log \cup {Line("info", "Concurrent Process Execution", <<>>, Len(xml_files))}
    /\ phase' = "returned"
    /\ UNCHANGED <<argv3, max_workers, data_out_dir, fs, xml_files, queue, running,
                   pc, article_list, fault, assigned, daoVars>>

\* concurrent_execution, lines 109-119: leaving the with block waits for every
\* work item (shutdown(wait=True)); a work item's exception stays in its
\* future and is never re-raised; then the aggregate line is logged.
JoinAndReport ==
    /\ phase = "join"
    /\ queue = <<>>
    /\ running = {}
    /\ log' = log \cup {Line("info", "Concurrent Process Execution", <<>>, Len(xml_files))}
    /\ phase' = "returned"
    /\ UNCHANGED <<argv3, max_workers, data_out_dir, fs, xml_files, queue, running,
                   pc, article_list, fault, assigned, daoVars>>

----------------------------------------------------------------------------
(* A worker process running parse_pubmed_article_set(in_path, out_path) *)

\* The work item f ends with an exception at step pc[f].  The exception is
\* stored in the item's future; nothing is logged and the worker is free.
\* injected says that the environment failed the step (a corrupt archive, a
\* malformed document, a full disk), as opposed to a file that another work
\* item left missing or damaged.
Raise(f, injected) ==
    /\ pc' = [pc EXCEPT ![f] = "failed"]
    /\ fault' = [fault EXCEPT ![f] = IF injected THEN pc[f] ELSE @]
    /\ running' = running \ {f}

\* A pool that starts a process per work item, whatever max_workers is.
StartTaskUnbounded(f) ==
    /\ phase = "join"
    /\ queue # <<>>
    /\ Head(queue) = f
    /\ queue' = Tail(queue)
    /\ assigned' = [assigned EXCEPT ![f] = @ + 1]
    /\ running' = running \cup {f}
    /\ IF Exists(XmlFile(f))
       THEN /\ pc' = [pc EXCEPT ![f] = "extract_articles"]
            /\ log' = log \cup {Line("info", "Parsing", XmlFile(f), 0)}
       ELSE /\ pc' = [pc EXCEPT ![f] = "decompress_open"]
            /\ log' = log \cup {Line("info", "Extracting", f, 0)}
    /\ UNCHANGED <<argv3, phase, max_workers, data_out_dir, fs, xml_files,
                   article_list, fault, daoVars>>

\* A pool of max_workers processes takes work items in submission order; the
\* process then runs lines 61-66: the suffix test and os.path.exists(xml_file).
StartTask(f) ==
    /\ phase = "join"
    /\ queue # <<>>
    /\ Head(queue) = f
    /\ Cardinality(running) < max_workers
    /\ queue' = Tail(queue)
    /\ assigned' = [assigned EXCEPT ![f] = @ + 1]
    /\ IF ~is_xml_article_set(Basename(f))
       THEN /\ pc' = [pc EXCEPT ![f] = "done"]
            /\ UNCHANGED <<running, log>>
       ELSE /\ running' = running \cup {f}
            /\ IF Exists(XmlFile(f))
               THEN /\ pc' = [pc EXCEPT ![f] = "extract_articles"]
                    /\ log' = log \cup {Line("info", "Parsing", XmlFile(f), 0)}
               ELSE /\ pc' = [pc EXCEPT ![f] = "decompress_open"]
                    /\ log' = log \cup {Line("info", "Extracting", f, 0)}
    /\ UNCHANGED <<argv3, phase, max_workers, data_out_dir, fs, xml_files,
                   article_list, fault, daoVars>>

\* decompress_article_set, lines 45-46: gzip.open(file_path) and
\* open(output_file, "wb"), which creates the file or truncates it.
DecompressOpen(f) ==
    /\ pc[f] = "decompress_open"
    /\ \/ /\ fs' = Written(XmlFile(f), Content(f, FALSE, <<"xml">>))
          /\ pc' = [pc EXCEPT ![f] = "decompress_copy"]
          /\ UNCHANGED <<running, fault>>
       \/ /\ Raise(f, TRUE)
          /\ UNCHANGED fs
    /\ UNCHANGED <<argv3, phase, max_workers, data_out_dir, xml_files, queue,
                   article_list, assigned, log, daoVars>>

\* decompress_article_set, line 47: shutil.copyfileobj.  The bytes go to the
\* file opened in DecompressOpen: if it was removed since, they are lost with
\* it; if another process reopened it since, the two writes are mixed.  A
\* corrupt archive raises and leaves what was written so far.
DecompressCopy(f) ==
    /\ pc[f] = "decompress_copy"
    /\ \/ /\ fs' = IF Exists(XmlFile(f))
                   THEN Written(XmlFile(f),
                                [Gunzip(fs[f]) EXCEPT !.full = (fs[XmlFile(f)].src = f)])
                   ELSE fs
          /\ pc' = [pc EXCEPT ![f] = "extract_articles"]
          /\ log' = log \cup {Line("info", "Parsing", XmlFile(f), 0)}
          /\ UNCHANGED <<running, fault>>
       \/ /\ Raise(f, TRUE)
          /\ UNCHANGED <<fs, log>>
    /\ UNCHANGED <<argv3, phase, max_workers, data_out_dir, xml_files, queue,
                   article_list, assigned, daoVars>>

\* Line 70: ArticleSetParser.extract_articles(xml_file).  A missing file
\* raises; a document that is not all there raises or yields the records read
\* so far; a complete document yields its records unless it is malformed.
ExtractStep(f) ==
    /\ pc[f] = "extract_articles"
    /\ IF ~Exists(XmlFile(f))
       THEN /\ Raise(f, FALSE)
            /\ UNCHANGED article_list
       ELSE \/ /\ article_list' = [article_list EXCEPT ![f] = ExtractArticles(fs[XmlFile(f)])]
               /\ pc' = [pc EXCEPT ![f] = "remove_xml"]
               /\ UNCHANGED <<running, fault>>
            \/ /\ Raise(f, fs[XmlFile(f)].full)
               /\ UNCHANGED article_list
    /\ UNCHANGED <<argv3, phase, max_workers, data_out_dir, fs, xml_files, queue,
                   assigned, log, daoVars>>

\* Line 73 with os.remove(in_path) in place of os.remove(xml_file).
RemoveArchive(f) ==
    /\ pc[f] = "remove_xml"
    /\ IF ~Exists(f)
       THEN /\ Raise(f, FALSE)
            /\ UNCHANGED <<fs, log>>
       ELSE /\ fs' = Removed(f)
            /\ pc' = [pc EXCEPT ![f] = "articles_to_jsonl"]
            /\ log' = log \cup {Line("info", "Generating", OutputFile(f, data_out_dir), 0)}
            /\ UNCHANGED <<running, fault>>
    /\ UNCHANGED <<argv3, phase, max_workers, data_out_dir, xml_files, queue,
                   article_list, assigned, daoVars>>

\* Line 73: os.remove(xml_file), which raises when the file is not there.
RemoveXml(f) ==
    /\ pc[f] = "remove_xml"
    /\ IF ~Exists(XmlFile(f))
       THEN /\ Raise(f, FALSE)
            /\ UNCHANGED <<fs, log>>
       ELSE /\ fs' = Removed(XmlFile(f))
            /\ pc' = [pc EXCEPT ![f] = "articles_to_jsonl"]
            /\ log' = log \cup {Line("info", "Generating", OutputFile(f, data_out_dir), 0)}
            /\ UNCHANGED <<running, fault>>
    /\ UNCHANGED <<argv3, phase, max_workers, data_out_dir, xml_files, queue,
                   article_list, assigned, daoVars>>

\* Lines 75-77: ArticleSetParser.articles_to_jsonl(article_list, output_file).
\* It may fail before the file is created or after part of it is written.
SerializeStep(f) ==
    /\ pc[f] = "articles_to_jsonl"
    /\ \/ /\ fs' = Written(OutputFile(f, data_out_dir), ArticlesToJsonl(article_list[f]))
          /\ pc' = [pc EXCEPT ![f] = "compress"]
          /\ log' = log \cup {Line("info", "Compressing file", OutputFile(f, data_out_dir), 0)}
          /\ UNCHANGED <<running, fault>>
       \/ /\ fs' = Written(OutputFile(f, data_out_dir),
                           [ArticlesToJsonl(article_list[f]) EXCEPT !.full = FALSE])
          /\ Raise(f, TRUE)
          /\ UNCHANGED log
       \/ /\ Raise(f, TRUE)
          /\ UNCHANGED <<fs, log>>
    /\ UNCHANGED <<argv3, phase, max_workers, data_out_dir, xml_files, queue,
                   article_list, assigned, daoVars>>

\* Lines 80-85: read output_file back, gzip.compress, write output_file + ".gz".
\* The read raises when the file is not there; the write may fail before the
\* file is created or after part of it is written.
CompressStep(f) ==
    /\ pc[f] = "compress"
    /\ IF ~Exists(OutputFile(f, data_out_dir))
       THEN /\ Raise(f, FALSE)
            /\ UNCHANGED fs
       ELSE \/ /\ fs' = Written(OutputFileCompressed(f, data_out_dir),
                                Gzip(fs[OutputFile(f, data_out_dir)]))
               /\ pc' = [pc EXCEPT ![f] = "remove_jsonl"]
               /\ UNCHANGED <<running, fault>>
            \/ /\ fs' = Written(OutputFileCompressed(f, data_out_dir),
                                [Gzip(fs[OutputFile(f, data_out_dir)]) EXCEPT !.full = FALSE])
               /\ Raise(f, TRUE)
            \/ /\ Raise(f, TRUE)
               /\ UNCHANGED fs
    /\ UNCHANGED <<argv3, phase, max_workers, data_out_dir, xml_files, queue,
                   article_list, assigned, log, daoVars>>

\* Lines 88-96: os.remove(output_file), the completion line, return.
RemoveJsonl(f) ==
    /\ pc[f] = "remove_jsonl"
    /\ IF ~Exists(OutputFile(f, data_out_dir))
       THEN /\ Raise(f, FALSE)
            /\ UNCHANGED <<fs, log>>
       ELSE /\ fs' = Removed(OutputFile(f, data_out_dir))
            /\ pc' = [pc EXCEPT ![f] = "done"]
            /\ running' = running \ {f}
            /\ log' = log \cup {Line("info", "File Processed", OutputFile(f, data_out_dir), 0)}
            /\ UNCHANGED fault
    /\ UNCHANGED <<argv3, phase, max_workers, data_out_dir, xml_files, queue,
                   article_list, assigned, daoVars>>

\* One step of one work item, by the worker process that holds it.
parse_pubmed_article_set ==
    \/ \E f \in DOMAIN pc : StartTask(f)
    \/ \E f \in DOMAIN pc : DecompressOpen(f)
    \/ \E f \in DOMAIN pc : DecompressCopy(f)
    \/ \E f \in DOMAIN pc : ExtractStep(f)
    \/ \E f \in DOMAIN pc : RemoveXml(f)
    \/ \E f \in DOMAIN pc : SerializeStep(f)
    \/ \E f \in DOMAIN pc : CompressStep(f)
    \/ \E f \in DOMAIN pc : RemoveJsonl(f)

concurrent_execution ==
    \/ Discover
    \/ Submit
    \/ parse_pubmed_article_set
    \/ JoinAndReport

Next ==
    \/ Main
    \/ concurrent_execution

Spec == Init /\ [][Next]_vars

\* The script started again with the same arguments once a run has returned:
\* a new process, the files and the log as the earlier runs left them.
Rerun ==
    /\ phase = "returned"
    /\ phase' = "main"
    /\ max_workers' = 0
    /\ xml_files' = <<>>
    /\ queue' = <<>>
    /\ running' = {}
    /\ pc' = <<>>
    /\ article_list' = <<>>
    /\ fault' = <<>>
    /\ assigned' = <<>>
    /\ UNCHANGED <<argv3, data_out_dir, fs, log, daoVars>>

\* A sequence of runs over directories that at first hold a single archive.
InitRerun ==
    /\ Init
    /\ DOMAIN fs = {Join(data_in_dir, <<"a", ".xml", ".gz">>)}

NextRerun ==
    \/ Next
    \/ Rerun

SpecRerun == InitRerun /\ [][NextRerun]_vars

----------------------------------------------------------------------------
(* The data access object: BaseDao and CtdDao over a repository *)

\* The rows of q that are not in the set seen, in order, each once.
RECURSIVE NewRows(_, _)
NewRows(q, seen) ==
    IF q = <<>> THEN <<>>
    ELSE IF Head(q) \in seen THEN NewRows(Tail(q), seen)
    ELSE <<Head(q)>> \o NewRows(Tail(q), seen \cup {Head(q)})

RECURSIVE Chunked(_, _)

\* repository.save(payload): the table after the batch is persisted, each
\* record (digest) held at most once.
RepositorySave(table, payload) == table \o NewRows(payload.rows, Range(table))

\* repository.delete_all()
RepositoryDeleteAll(table) == <<>>

\* repository.query(query=None, chunksize): the persisted rows in the order
\* they are held, cut into DataFrames of chunksize rows, the last one holding
\* the remainder; no DataFrame at all when nothing is persisted.
Chunked(table, size) ==
    IF table = <<>> THEN <<>>
    ELSE IF Len(table) <= size THEN <<table>>
    ELSE <<SubSeq(table, 1, size)>> \o Chunked(SubSeq(table, size + 1, Len(table)), size)

\* A call that is no query returns no generator.
NoGenerator ==
    /\ chunksize' = 0
    /\ chunks' = <<>>

\* The position in the sequence purge_records, valid save, query once the call
\* op is made; accepted tells whether a save passes the parser.
Followed(op, accepted) ==
    IF op = "purge_records" THEN "purged"
    ELSE IF op = "save" /\ accepted /\ rebuild = "purged" THEN "saved"
    ELSE IF op = "query" /\ rebuild = "saved" THEN "queried"
    ELSE "no"

\* BaseDao.save without the validation gate: every payload is forwarded.
SaveUngated(payload) ==
    /\ dao_call' = [op |-> "save", payload |-> payload]
    /\ repo_calls' = <<[op |-> "save", payload |-> payload]>>
    /\ store' = RepositorySave(store, payload)
    /\ dao_result' = "returned"
    /\ NoGenerator
    /\ rebuild' = Followed("save", TRUE)
    /\ UNCHANGED pipeVars

\* BaseDao.save that validates and then forgets to forward the payload.
SaveNotForwarded(payload) ==
    /\ dao_call' = [op |-> "save", payload |-> payload]
    /\ dao_result' = IF ~is_valid(payload) THEN "SchemaError" ELSE "returned"
    /\ repo_calls' = <<>>
    /\ UNCHANGED store
    /\ NoGenerator
    /\ rebuild' = Followed("save", is_valid(payload))
    /\ UNCHANGED pipeVars

\* BaseDao.save(payload)
Save(payload) ==
    /\ dao_call' = [op |-> "save", payload |-> payload]
    /\ IF ~is_valid(payload)
       THEN /\ dao_result' = "SchemaError"
            /\ repo_calls' = <<>>
            /\ UNCHANGED store
       ELSE /\ repo_calls' = <<[op |-> "save", payload |-> payload]>>
            /\ store' = RepositorySave(store, payload)
            /\ dao_result' = "returned"
    /\ NoGenerator
    /\ rebuild' = Followed("save", is_valid(payload))
    /\ UNCHANGED pipeVars

\* CtdDao.purge_records that returns without calling the repository.
PurgeRecordsNotForwarded ==
    /\ dao_call' = [op |-> "purge_records", payload |-> None]
    /\ repo_calls' = <<>>
    /\ UNCHANGED store
    /\ dao_result' = "returned"
    /\ NoGenerator
    /\ rebuild' = Followed("purge_records", FALSE)
    /\ UNCHANGED pipeVars

\* CtdDao.purge_records()
PurgeRecords ==
    /\ dao_call' = [op |-> "purge_records", payload |-> None]
    /\ repo_calls' = <<[op |-> "delete_all", payload |-> None]>>
    /\ store' = RepositoryDeleteAll(store)
    /\ dao_result' = "returned"
    /\ NoGenerator
    /\ rebuild' = Followed("purge_records", FALSE)
    /\ UNCHANGED pipeVars

\* BaseDao.query that forwards the default chunk size in place of its argument.
QueryDefaultChunksize(size) ==
    /\ dao_call' = [op |-> "query", payload |-> None]
    /\ repo_calls' = <<[op |-> "query", payload |-> None]>>
    /\ chunksize' = size
    /\ chunks' = Chunked(store, MaxChunk + 1)
    /\ dao_result' = "returned"
    /\ rebuild' = Followed("query", FALSE)
    /\ UNCHANGED store
    /\ UNCHANGED pipeVars

\* BaseDao.query(query=None, chunksize=size): the generator of the repository,
\* pulled to its end before the next call is made on the DAO.
Query(size) ==
    /\ dao_call' = [op |-> "query", payload |-> None]
    /\ repo_calls' = <<[op |-> "query", payload |-> None]>>
    /\ chunksize' = size
    /\ chunks' = Chunked(store, size)
    /\ dao_result' = "returned"
    /\ rebuild' = Followed("query", FALSE)
    /\ UNCHANGED store
    /\ UNCHANGED pipeVars

\* CtdDao.download(): the body is a docstring and a comment, so the call
\* returns None and touches nothing.
Download ==
    /\ dao_call' = [op |-> "download", payload |-> None]
    /\ repo_calls' = <<>>
    /\ dao_result' = "returned"
    /\ UNCHANGED store
    /\ NoGenerator
    /\ rebuild' = Followed("download", FALSE)
    /\ UNCHANGED pipeVars

\* A pipeline that is not run while the DAO is used.
PipeIdle ==
    /\ argv3 = IntArg(1)
    /\ phase = "main"
    /\ max_workers = 0
    /\ data_out_dir = "out/"
    /\ fs = <<>>
    /\ xml_files = <<>>
    /\ queue = <<>>
    /\ running = {}
    /\ pc = <<>>
    /\ article_list = <<>>
    /\ fault = <<>>
    /\ assigned = <<>>
    /\ log = {}

InitDao == PipeIdle /\ DaoInit

\* A call of parser.is_valid(payload) and the boolean it returns.
IsValidCall(payload) ==
    /\ dao_call' = [op |-> "is_valid", payload |-> payload]
    /\ dao_result' = IF is_valid(payload) THEN "True" ELSE "False"
    /\ repo_calls' = <<>>
    /\ UNCHANGED store
    /\ NoGenerator
    /\ rebuild' = Followed("is_valid", FALSE)
    /\ UNCHANGED pipeVars

NextParser == \E payload \in ParserPayloads : IsValidCall(payload)

SpecParser == InitDao /\ [][NextParser]_vars

NextDao ==
    \/ \E payload \in Payloads : Save(payload)
    \/ PurgeRecords
    \/ \E size \in 1..MaxChunk : Query(size)
    \/ Download

SpecDao == InitDao /\ [][NextDao]_vars

----------------------------------------------------------------------------
(* Properties of the ingestion pipeline *)

\* The work items, once submitted.
WorkItems == DOMAIN pc

\* The processing of work item f has ended: it returned or it raised.
Ended(f) == pc[f] \in {"done", "failed"}

\* A worker process is executing work item f.
InProcessing(f) == pc[f] \notin {"queued", "done", "failed"}

\* The archives the input directory holds.
Archives ==
    {p \in DOMAIN fs : Dirname(p) = data_in_dir /\ is_xml_article_set(Basename(p))}

\* The paths the worker of archive f creates, reads or deletes.
Artifacts(f) ==
    {XmlFile(f), OutputFile(f, data_out_dir), OutputFileCompressed(f, data_out_dir)}

\* C1: when concurrent_execution has returned from a run in which the
\* environment failed some archive, every archive that the environment did not
\* fail has been processed to completion.
C1_FaultIsolation ==
    (phase = "returned" /\ \E g \in WorkItems : fault[g] # "none")
        => \A f \in WorkItems : fault[f] = "none" => pc[f] = "done"

\* C2: once the processing of an archive has ended, completed or failed, the
\* .xml file decompressed from it does not exist.
C2_NoXmlAfterProcessing ==
    \A f \in WorkItems :
        Ended(f) => ~(Exists(XmlFile(f)) /\ fs[XmlFile(f)].src = f)

\* C3: after concurrent_execution has returned, the output directory holds no
\* uncompressed .jsonl file.
C3_NoJsonlAfterRun ==
    phase = "returned"
        => \A p \in DOMAIN fs :
              Dirname(p) = data_out_dir => ~EndsWith(p, <<".jsonl">>)

\* C4: by the time concurrent_execution has returned, an error has been
\* logged for every archive whose processing failed.
C4_FailureLogged ==
    phase = "returned"
        => \A f \in WorkItems :
              pc[f] = "failed"
                 => \E l \in log : l.level = "error" /\ l.file \in {f} \cup Artifacts(f)

\* C5: the aggregate line is logged only when the processing of every
\* submitted archive has ended, and the count it gives is the number of
\* archives discovered, whatever became of them.
C5_JoinBeforeReport ==
    \A l \in log :
        l.msg = "Concurrent Process Execution"
           => /\ \A f \in WorkItems : Ended(f)
              /\ queue = <<>>
              /\ l.n = Cardinality(Archives)
              /\ l.n = Cardinality(WorkItems)

\* The report of a run of two archives, one completed and one failed.
C5_Witness ==
    /\ Line("info", "Concurrent Process Execution", <<>>, 2) \in log
    /\ \E f \in WorkItems : pc[f] = "done"
    /\ \E f \in WorkItems : pc[f] = "failed"

\* C6: two different archives of the input directory share none of the paths
\* their workers create, read or delete.
C6_ArtifactsDisjoint ==
    \A f, g \in WorkItems : f # g => Artifacts(f) \cap Artifacts(g) = {}

\* C7: at most max_workers archives are in processing at any moment, no
\* archive is assigned to a worker twice, an archive is past the queue only by
\* being assigned, and when the run has returned every archive was assigned.
C7_BoundedPoolSingleAssignment ==
    /\ phase \in {"join", "returned"}
          => Cardinality({f \in WorkItems : InProcessing(f)}) <= max_workers
    /\ \A f \in WorkItems :
          /\ assigned[f] <= 1
          /\ pc[f] # "queued" => assigned[f] = 1
          /\ phase = "returned" => assigned[f] = 1
          /\ pc[f] = "queued" <=> f \in Range(queue)

\* The pool is full: as many archives in processing as there are workers, and
\* another archive waiting in the queue.
C7_Witness ==
    /\ phase = "join"
    /\ queue # <<>>
    /\ Cardinality({f \in WorkItems : InProcessing(f)}) = max_workers

----------------------------------------------------------------------------
(* Properties of the data access object *)

\* C9: a save whose payload the parser rejects (None included) raises
\* SchemaError, makes no call on the repository and leaves the persisted rows
\* as they were.
C9_InvalidSaveRejected ==
    [][(dao_call'.op = "save" /\ ~is_valid(dao_call'.payload))
          => /\ dao_result' = "SchemaError"
             /\ repo_calls' = <<>>
             /\ store' = store]_vars

\* A rejected DataFrame, saved while the repository holds rows.
C9_Witness ==
    /\ dao_call.op = "save"
    /\ ~dao_call.payload.none
    /\ dao_call.payload.rows # <<>>
    /\ ~is_valid(dao_call.payload)
    /\ dao_result = "SchemaError"
    /\ store # <<>>

----------------------------------------------------------------------------
(* Properties of the parser *)

\* C11: is_valid returns one boolean; it is False for None, for a batch that
\* lacks a column of the schema, for a batch with a cell of GeneID or
\* PubMedIDs that is no int, and for a batch with a row whose DiseaseID fails
\* the pattern; it is True exactly when the payload is a batch on which the
\* schema validation reports no error.
C11_AllOrNothing ==
    dao_call.op = "is_valid" =>
        LET p == dao_call.payload
            rows == 1..Len(p.rows)
        IN  /\ dao_result \in {"True", "False"}
            /\ p.none => dao_result = "False"
            /\ (\E c \in Range(SchemaColumns) : ~InHeader(p, c)) => dao_result = "False"
            /\ (\E i \in rows : p.rows[i].GeneID.t # "int") => dao_result = "False"
            /\ (\E i \in rows : p.rows[i].PubMedIDs.t # "int") => dao_result = "False"
            /\ (\E i \in rows : ~MatchesPattern(p.rows[i].DiseaseID.v)) => dao_result = "False"
            /\ dao_result = "True" <=> (~p.none /\ SchemaValidate(p) = {})

\* A batch with every column, whose first row satisfies the schema and whose
\* second row fails the pattern, is rejected as a whole.
C11_Witness ==
    /\ dao_call.op = "is_valid"
    /\ dao_result = "False"
    /\ dao_call.payload.columns = SchemaColumns
    /\ Len(dao_call.payload.rows) = 2
    /\ is_valid(DataFrame(SchemaColumns, <<dao_call.payload.rows[1]>>))
    /\ ~MatchesPattern(dao_call.payload.rows[2].DiseaseID.v)

----------------------------------------------------------------------------
(* Properties of the queries *)

RECURSIVE Flatten(_)

\* The rows a chunk sequence yields, in order.
Flatten(cs) ==
    IF cs = <<>> THEN <<>> ELSE Head(cs) \o Flatten(Tail(cs))

\* C12: a query with no filter that follows purge_records yields no DataFrame
\* (the first pull ends the sequence), whatever was saved before; and when a
\* valid save follows the purge, the query after it yields exactly the records
\* of that save.
C12_PurgeThenRebuild ==
    [][/\ (dao_call.op = "purge_records" /\ dao_call'.op = "query") => chunks' = <<>>
       /\ (rebuild = "saved" /\ dao_call'.op = "query")
             => Range(Flatten(chunks')) = Range(dao_call.payload.rows)]_vars

\* The query after purge_records and a valid save of two records has yielded
\* them.
C12_Witness ==
    /\ rebuild = "queried"
    /\ dao_call.op = "query"
    /\ Cardinality(Range(Flatten(chunks))) = 2

\* C13: a query with no filter and chunksize >= 1 yields DataFrames whose
\* concatenation is the persisted records, each exactly once; no DataFrame has
\* more than chunksize rows, every one but the last has exactly chunksize
\* rows, the last holds the remainder and is never empty; the query is
\* computed from the store as it is at the call and leaves it unchanged.
C13_ChunkedQuery ==
    [][dao_call'.op = "query" =>
          LET n == Len(chunks')
              all == Flatten(chunks')
          IN  /\ chunksize' >= 1
              /\ store' = store
              /\ Range(all) = Range(store)
              /\ Len(all) = Cardinality(Range(store))
              /\ \A i \in 1..n : Len(chunks'[i]) <= chunksize'
              /\ \A i \in 1..(n - 1) : Len(chunks'[i]) = chunksize'
              /\ n > 0 => /\ Len(chunks'[n]) = Len(store) - (n - 1) * chunksize'
                          /\ Len(chunks'[n]) >= 1]_vars

\* Three records queried by two: a full DataFrame and the remainder.
C13_Witness ==
    /\ dao_call.op = "query"
    /\ chunksize = 2
    /\ Len(store) = 3
    /\ Len(chunks) = 2
    /\ Len(chunks[1]) = 2
    /\ Len(chunks[2]) = 1

\* C14: download() of a DAO without online source raises NotImplementedError
\* and neither saves nor deletes a record.
C14_DownloadNotImplemented ==
    [][dao_call'.op = "download" =>
          /\ dao_result' = "NotImplementedError"
          /\ repo_calls' = <<>>
          /\ store' = store]_vars

----------------------------------------------------------------------------
(* Properties of one archive's processing *)

\* C15: when the processing of an archive <name>.xml.gz returns with every
\* step succeeded, the output directory holds <name>.jsonl.gz, its content is
\* the compressed serialization of the records parsed for that archive, the
\* archive is still there, and neither <name>.xml beside the archive nor
\* <name>.jsonl in the output directory exists.
C15_SuccessfulEndState ==
    [][\A f \in DOMAIN pc \cap DOMAIN pc' :
          (pc[f] # "done" /\ pc'[f] = "done") =>
              LET name == SubSeq(Basename(f), 1, Len(Basename(f)) - 2)
                  compressed == <<data_out_dir>> \o name \o <<".jsonl", ".gz">>
              IN  /\ compressed \in DOMAIN fs'
                  /\ fs'[compressed] = Gzip(ArticlesToJsonl(article_list[f]))
                  /\ f \in DOMAIN fs'
                  /\ (<<Dirname(f)>> \o name \o <<".xml">>) \notin DOMAIN fs'
                  /\ (<<data_out_dir>> \o name \o <<".jsonl">>) \notin DOMAIN fs']_vars

\* C16: when the input directory holds no file whose name ends with
\* ".xml.gz", concurrent_execution raises nothing, no step of it creates,
\* changes or deletes a file, it has no work item to wait for, and it returns
\* with the aggregate line reporting 0 files.
C16_EmptyDiscoveryNoOp ==
    [][(Archives = {} /\ phase # "main") =>
          /\ fs' = fs
          /\ phase' # "raised"
          /\ phase = "join" => (queue = <<>> /\ running = {})
          /\ phase' = "returned" =>
                /\ xml_files' = <<>>
                /\ Line("info", "Concurrent Process Execution", <<>>, 0) \in log'
                /\ \A l \in log' : l.msg = "Concurrent Process Execution" => l.n = 0]_vars

\* A run that has returned over an input directory that holds files, none of
\* them an archive.
C16_Witness ==
    /\ phase = "returned"
    /\ Archives = {}
    /\ \E p \in DOMAIN fs : Dirname(p) = data_in_dir
    /\ Line("info", "Concurrent Process Execution", <<>>, 0) \in log

\* C17: over any sequence of runs on the same directories, once a processing
\* of an archive has returned without error, the compressed output of that
\* archive holds the records of a complete decompression of the archive, not
\* those of a decompressed sibling that an earlier run left behind.
C17_OutputReflectsArchive ==
    \A f \in WorkItems :
        pc[f] = "done" =>
            /\ OutputFileCompressed(f, data_out_dir) \in DOMAIN fs
            /\ fs[OutputFileCompressed(f, data_out_dir)]
                   = Gzip(ArticlesToJsonl(ExtractArticles(Gunzip(fs[f]))))

\* C18: for one archive the decompressed .xml and the .jsonl never exist at
\* the same time, the .jsonl is deleted only when the .jsonl.gz is fully
\* written, and the completion line of the file is logged only when the
\* .jsonl.gz exists and the .jsonl is gone.
C18_StepOrdering ==
    [][\A f \in DOMAIN pc' :
          LET xml == XmlFile(f)
              jsonl == OutputFile(f, data_out_dir)
              compressed == OutputFileCompressed(f, data_out_dir)
              completion == Line("info", "File Processed", jsonl, 0)
          IN  /\ ~(xml \in DOMAIN fs' /\ jsonl \in DOMAIN fs')
              /\ (f \in DOMAIN pc /\ pc[f] = "remove_jsonl" /\ jsonl \in DOMAIN fs /\ jsonl \notin DOMAIN fs')
                    => (compressed \in DOMAIN fs /\ fs[compressed].full)
              /\ (completion \notin log /\ completion \in log')
                    => (compressed \in DOMAIN fs' /\ jsonl \notin DOMAIN fs')]_vars

----------------------------------------------------------------------------
(* Frame of the pipeline *)

\* The paths whose presence or content a step changes.
Touched ==
    {p \in DOMAIN fs \cup DOMAIN fs' :
        \/ p \notin DOMAIN fs
        \/ p \notin DOMAIN fs'
        \/ fs'[p] # fs[p]}

\* C19 as stated: no step writes to or deletes a file whose name ends with
\* ".xml.gz", no archive appears, and a file whose name does not end with
\* ".xml.gz" is never decompressed, parsed or deleted.
C19_OnlyArchivesProcessed ==
    [][/\ \A p \in Touched : ~is_xml_article_set(Basename(p))
       /\ \A p \in DOMAIN fs : ~is_xml_article_set(Basename(p)) => p \in DOMAIN fs'
       /\ \A f \in DOMAIN pc \cap DOMAIN pc' :
             article_list'[f] # article_list[f] => is_xml_article_set(Basename(XmlFile(f)))]_vars

\* C19, amended: no step writes to or deletes a file whose name ends with
\* ".xml.gz" and no such file appears, in either directory; every work item
\* is an archive of the input directory and only a work item is decompressed;
\* a step creates, overwrites or deletes only paths derived from a work item
\* (its .xml sibling, its .jsonl, its .jsonl.gz), and the document a worker
\* parses is the one at the .xml path of its work item.
C19_ArchivesImmutable ==
    [][/\ \A p \in Touched : ~is_xml_article_set(Basename(p))
       /\ \A f \in DOMAIN pc' :
             /\ Dirname(f) = data_in_dir
             /\ is_xml_article_set(Basename(f))
       /\ \A p \in Touched : \E f \in DOMAIN pc : p \in Artifacts(f)
       /\ \A f \in DOMAIN pc \cap DOMAIN pc' :
             /\ article_list'[f] # article_list[f]
                    => article_list'[f] = ExtractArticles(fs[XmlFile(f)])
             /\ (pc[f] = "decompress_copy" /\ pc'[f] = "extract_articles" /\ XmlFile(f) \in Touched)
                    => fs'[XmlFile(f)].src = f]_vars

\* A run over one directory for input and output has returned, an archive
\* was processed to its end beside a file that is no archive, and every
\* archive is as it was.
C19_Witness ==
    /\ phase = "returned"
    /\ data_out_dir = data_in_dir
    /\ \E f \in WorkItems : pc[f] = "done"
    /\ \E f \in WorkItems : pc[f] = "failed"
    /\ \A f \in WorkItems : f \in DOMAIN fs /\ fs[f] = InitialContent(f)

----------------------------------------------------------------------------
(* Properties of the entry point *)

\* C20: with a third argument that is no integer in 1..16, a non-numeric
\* string included, the script does not exit abnormally: once past the
\* argument handling it runs the pipeline with 1 worker, the warning logged.
C20_InvalidWorkerCountDefaults ==
    (phase # "main" /\ (~argv3.numeric \/ argv3.val < MinWorkers \/ argv3.val > MaxWorkers))
        => /\ phase # "raised"
           /\ max_workers = 1
           /\ \E l \in log : l.level = "error" /\ l.msg = "Invalid number of workers requested"

====
